---- MODULE Spec2Model ----
(***************************************************************************)
(* The cart-to-order core of the storefront: the session cart (cart/cart.py *)
(* and the cart views), order creation and cancellation (orders/views.py)   *)
(* over a catalog of products (products/models.py), and the product reviews *)
(* (reviews/views.py, reviews/models.py).                                   *)
(*                                                                          *)
(* The database is modelled with read-committed isolation: a transaction's  *)
(* writes are buffered in tx[u] and become visible to other requests at its *)
(* commit; a transaction reads the committed rows overlaid with its own     *)
(* writes.  The code takes no row lock (no select_for_update) and writes    *)
(* absolute values (product.stock -= n; product.save()), so a row lock held *)
(* from write to commit would only order the commits; it is not modelled.   *)
(* The session is loaded at the start of a request and written back by the  *)
(* session middleware at its end when it was marked modified.               *)
(***************************************************************************)
EXTENDS Integers, Sequences, FiniteSets, TLC

\* ---------------------------------------------------------------- bounds
InitStock == 5          \* stock of every product in the initial catalog
MaxOrders == 3          \* rows the orders table may hold
MaxQty    == 3          \* largest quantity a request asks for
MaxOps    == 3          \* cart API calls a visitor makes in all
MaxReviews == 3         \* ids the reviews table hands out
MaxVotes   == 3         \* ids the helpful-votes table hands out

\* Browser sessions, each with its own cart and logged in as one identity;
\* two sessions of one identity are one user on two devices.
Sessions   == {"s1", "s2"}
Identities == {"alice", "bob"}
Products   == {"pA", "pB"}

\* ------------------------------------------------------------- variables
VARIABLES
  user,         \* request.user of the requests of each session
  catalog,      \* ids of the Product rows that exist
  stock,        \* Product.stock, committed
  price,        \* Product.price in cents, committed
  available,    \* Product.available, committed
  orders,       \* committed Order rows with their OrderItems, by id 1..Len
  session,      \* the persisted cart of each session
  pc,           \* position of the session's request in flight
  handle,       \* Cart.cart of the request's Cart object
  mem,          \* request.session['cart'] of the request in flight
  aliased,      \* Cart.cart and request.session['cart'] are one dict object
  modified,     \* request.session.modified
  tx,           \* the request's open transaction: its uncommitted writes
  target,       \* order_cancel: the order being cancelled
  todo,         \* order_cancel: the OrderItems still to restore
  result,       \* outcome of the visitor's last request or cart call
  yielded,      \* records the last call produced: the cart's lines it
                \* iterated, the stock errors it reported, or the body
                \* of its response to a helpful toggle
  ops,          \* cart API calls the visitor has made
  undisturbed,  \* history: no other request committed during this request
  reviews,      \* the committed Review rows
  reviewSeq,    \* the last id the reviews table handed out
  reviewing,    \* the Review instance the session's request holds
  helpful,      \* the committed ReviewHelpful rows
  helpfulSeq,   \* the last id the helpful-votes table handed out
  voting        \* the ReviewHelpful instance the session's request holds

vars == <<user, catalog, stock, price, available, orders, session, pc,
          handle, mem, aliased, modified, tx, target, todo, result, yielded,
          ops, undisturbed, reviews, reviewSeq, reviewing, helpful,
          helpfulSeq, voting>>

voteVars   == <<helpful, helpfulSeq, voting>>
reviewVars == <<reviews, reviewSeq, reviewing, voteVars>>

dbVars   == <<user, reviewVars, catalog, stock, price, available, orders>>
cartVars == <<handle, mem, aliased, modified>>

\* ------------------------------------------------------------ price text
\* Cart.add stores str(product.price); iteration and totals parse it back
\* with Decimal(...).  A DecimalField(decimal_places=2) prints as units,
\* a point and two digits: the text is modelled as <<units, hundredths>>.
PriceStr(cents) == <<cents \div 100, cents % 100>>

DecimalOfUnits(text) == text[1] * 100

DecimalOf(text) == text[1] * 100 + text[2]

\* ------------------------------------------------------------- cart dict
\* The cart is a dict keyed by product id; a Python dict iterates in
\* insertion order, so it is a sequence of lines without repeated keys.
HasLine(cart, p) == \E i \in 1..Len(cart) : cart[i].product_id = p

LineIndex(cart, p) == CHOOSE i \in 1..Len(cart) : cart[i].product_id = p

Qty(cart, p) == IF HasLine(cart, p) THEN cart[LineIndex(cart, p)].quantity ELSE 0

DelKeyNothing(cart, p) == cart

DelKey(cart, p) ==
  LET keep == {i \in 1..Len(cart) : cart[i].product_id # p}
      F[n \in 0..Len(cart)] ==
        IF n = 0 THEN <<>>
        ELSE IF n \in keep THEN Append(F[n - 1], cart[n]) ELSE F[n - 1]
  IN F[Len(cart)]

ProductListed(p) ==
  [id |-> p, price |-> price[p], stock |-> stock[p], available |-> TRUE]

Product(p) ==
  [id |-> p, price |-> price[p], stock |-> stock[p], available |-> available[p]]

CartLenOne(cart) == 1

\* Cart.__len__: the sum of the positive quantities.
RECURSIVE CartLen(_)
CartLen(cart) ==
  IF cart = <<>> THEN 0
  ELSE (IF Head(cart).quantity > 0 THEN Head(cart).quantity ELSE 0)
       + CartLen(Tail(cart))

\* Cart.get_total_price, in cents.
RECURSIVE TotalPrice(_)
TotalPrice(cart) ==
  IF cart = <<>> THEN 0
  ELSE (IF Head(cart).quantity > 0
          THEN DecimalOf(Head(cart).price) * Head(cart).quantity ELSE 0)
       + TotalPrice(Tail(cart))

CartRemoveFirst(cart, p) ==
  [cart |-> IF cart = <<>> THEN cart ELSE Tail(cart), saved |-> cart # <<>>]

\* Cart.remove on the dict: [cart, saved]; save() runs only when the key
\* was present.
CartRemove(cart, p) ==
  IF HasLine(cart, p) THEN [cart |-> DelKey(cart, p), saved |-> TRUE]
  ELSE [cart |-> cart, saved |-> FALSE]

CartAddQuantityKept(old, quantity, override) == old + 1

\* Cart.add on the dict, for a Product object prod: the dict after the call,
\* what it raised, and whether it reached save().  The quantity is written
\* into the dict before it is compared with the stock.
CartAddQuantity(old, quantity, override) ==
  IF override THEN quantity ELSE old + quantity

WithLineRepriced(cart, prod) ==
  IF HasLine(cart, prod.id)
    THEN [cart EXCEPT ![LineIndex(cart, prod.id)].price = PriceStr(prod.price)]
    ELSE Append(cart, [product_id |-> prod.id,
                       price |-> PriceStr(prod.price),
                       quantity |-> 0])

\* if product_id not in self.cart: a new line with str(product.price) and
\* quantity 0; a line that is there is left as it is.
WithLine(cart, prod) ==
  IF HasLine(cart, prod.id) THEN cart
  ELSE Append(cart, [product_id |-> prod.id,
                     price |-> PriceStr(prod.price),
                     quantity |-> 0])

CartAdd(cart, prod, quantity, override) ==
  IF ~prod.available
    THEN [cart |-> cart, raised |-> "Unavailable", saved |-> FALSE]
    ELSE
      LET c1 == WithLine(cart, prod)
          i  == LineIndex(c1, prod.id)
          c2 == [c1 EXCEPT ![i].quantity =
                              CartAddQuantity(@, quantity, override)]
      IN IF c2[i].quantity > prod.stock
           THEN [cart |-> c2, raised |-> "OutOfStock", saved |-> FALSE]
         ELSE IF c2[i].quantity <= 0
           THEN [cart |-> DelKey(c2, prod.id), raised |-> "none", saved |-> TRUE]
         ELSE [cart |-> c2, raised |-> "none", saved |-> TRUE]

\* Cart.__iter__ over the dict, joined with the products that exist now.
\* A line whose product is missing is removed from the dict while the dict
\* is being iterated: the removal is saved, and the next step of the dict
\* iterator raises RuntimeError (dictionary changed size during iteration).
FirstMissing(cart, exist) ==
  IF \E i \in 1..Len(cart) : cart[i].product_id \notin exist
    THEN CHOOSE i \in 1..Len(cart) :
           /\ cart[i].product_id \notin exist
           /\ \A j \in 1..(i - 1) : cart[j].product_id \in exist
    ELSE 0

IterRecord(line) ==
  [product_id |-> line.product_id,
   quantity   |-> line.quantity,
   price      |-> DecimalOf(line.price),
   total_price |-> DecimalOf(line.price) * line.quantity]

CartIter(cart, exist) ==
  LET m == FirstMissing(cart, exist)
      n == IF m = 0 THEN Len(cart) ELSE m - 1
  IN [items  |-> [i \in 1..n |-> IterRecord(cart[i])],
      cart   |-> IF m = 0 THEN cart ELSE DelKey(cart, cart[m].product_id),
      raised |-> IF m = 0 THEN "none" ELSE "RuntimeError",
      saved  |-> m # 0]

\* ------------------------------------------------------------ the request
NoTx == [open |-> FALSE, items |-> <<>>, stockW |-> <<>>]

\* Cart.__init__: the session's cart dict, or a new empty dict stored in the
\* session (which marks the session modified) when there is none or it is
\* empty.
CartOpen(u) ==
  /\ handle'   = [handle EXCEPT ![u] = session[u]]
  /\ mem'      = [mem EXCEPT ![u] = session[u]]
  /\ aliased'  = [aliased EXCEPT ![u] = TRUE]
  /\ modified' = [modified EXCEPT ![u] = (session[u] = <<>>)]

\* The response leaves: the session middleware writes the session back when
\* it was modified, and the request's objects are gone.
EndRequest(u, isModified, memNow, outcome) ==
  /\ session'  = [session EXCEPT ![u] = IF isModified THEN memNow ELSE @]
  /\ pc'       = [pc EXCEPT ![u] = "idle"]
  /\ handle'   = [handle EXCEPT ![u] = <<>>]
  /\ mem'      = [mem EXCEPT ![u] = <<>>]
  /\ aliased'  = [aliased EXCEPT ![u] = FALSE]
  /\ modified' = [modified EXCEPT ![u] = FALSE]
  /\ tx'       = [tx EXCEPT ![u] = NoTx]
  /\ target'   = [target EXCEPT ![u] = 0]
  /\ todo'     = [todo EXCEPT ![u] = <<>>]
  /\ result'   = [result EXCEPT ![u] = outcome]

\* A commit by u is seen by every other request in flight.
AfterCommit(u) ==
  undisturbed' = [w \in Sessions |-> IF w = u \/ pc[w] = "idle" THEN TRUE ELSE FALSE]

NoCommit(u, ending) ==
  undisturbed' = [undisturbed EXCEPT ![u] = IF ending THEN TRUE ELSE @]

\* A row of Product as the transaction of u reads it: the committed row, or
\* the value the transaction itself wrote.
ReadStock(u, p) ==
  IF p \in DOMAIN tx[u].stockW THEN tx[u].stockW[p] ELSE stock[p]

WriteStock(w, p, n) == [q \in (DOMAIN w) \cup {p} |-> IF q = p THEN n ELSE w[q]]

CommitStock(w) == [p \in Products |-> IF p \in DOMAIN w THEN w[p] ELSE stock[p]]

\* ------------------------------------------------------------ order_create
InitialStatus == "pending"

Statuses == {"pending", "processing", "cancelled", "completed"}

IsValidCartItemQuantityOnly(item) == item.quantity > 0

\* _is_valid_cart_item: the required keys are always present in a record
\* that Cart.__iter__ yields.
IsValidCartItem(item) == item.quantity > 0 /\ item.price > 0

\* product.stock < quantity is a stock error; the complement passes.
InStock(stockNow, quantity) == ~(stockNow < quantity)

OrderItemAtCatalogPrice(item) ==
  [product |-> item.product_id, price |-> price[item.product_id],
   quantity |-> item.quantity]

OrderItemOf(item) ==
  [product |-> item.product_id, price |-> item.price, quantity |-> item.quantity]

\* str(product) is the product's name (Product.__str__), not its id.
NameOf(p) == IF p = "pA" THEN "Cotton Wool" ELSE "Syringes"

\* An entry of stock_errors: the product's name, the quantity of the line
\* and the stock the request read.
StockErrorOf(u, item) ==
  [product   |-> NameOf(item.product_id),
   requested |-> item.quantity,
   available |-> ReadStock(u, item.product_id)]

StockErrorsFirst(u, items) ==
  LET bad == {i \in 1..Len(items) :
                /\ IsValidCartItem(items[i])
                /\ ~InStock(ReadStock(u, items[i].product_id), items[i].quantity)}
  IN IF bad = {} THEN <<>>
     ELSE <<StockErrorOf(u, items[CHOOSE i \in bad : \A j \in bad : i <= j])>>

\* stock_errors after the first loop: an entry is appended for every valid
\* line that asks for more than the stock, and the loop goes on.
StockErrors(u, items) ==
  LET bad == SelectSeq(items, LAMBDA it :
               IsValidCartItem(it) /\ ~InStock(ReadStock(u, it.product_id), it.quantity))
  IN [i \in 1..Len(bad) |-> StockErrorOf(u, bad[i])]

OrderItems(u, items) ==
  LET ok == SelectSeq(items, LAMBDA it :
              IsValidCartItem(it) /\ InStock(ReadStock(u, it.product_id), it.quantity))
  IN [i \in 1..Len(ok) |-> OrderItemOf(ok[i])]

NewOrder(u, items) == [user |-> user[u], status |-> InitialStatus, items |-> items]

OpenTxs == Cardinality({w \in Sessions : tx[w].open})

\* order_create, for a POST whose form is valid, up to the order header:
\* the empty-cart check and order.save() inside the transaction that opens.
OrderCreateBegin(u) ==
  /\ pc[u] = "idle"
  /\ Len(orders) + OpenTxs < MaxOrders
  /\ IF CartLen(session[u]) = 0
       THEN EndRequest(u, session[u] = <<>>, session[u], "EmptyCart")
       ELSE /\ CartOpen(u)
            /\ pc' = [pc EXCEPT ![u] = "validate"]
            /\ tx' = [tx EXCEPT ![u] = [open |-> TRUE, items |-> <<>>,
                                          stockW |-> <<>>]]
            /\ result' = [result EXCEPT ![u] = "running"]
            /\ UNCHANGED <<session, target, todo>>
  /\ NoCommit(u, FALSE)
  /\ UNCHANGED <<dbVars, yielded, ops>>

\* The first loop over the cart and what follows it up to bulk_create.  The
\* two early returns leave the with-block without an exception, so the
\* transaction, which holds the order header, commits.
OrderCreateValidate(u) ==
  /\ pc[u] = "validate"
  /\ LET it     == CartIter(handle[u], catalog)
         mod    == modified[u] \/ it.saved
         memNow == IF aliased[u] \/ it.saved THEN it.cart ELSE mem[u]
         errors == StockErrors(u, it.items)
         items  == OrderItems(u, it.items)
     IN IF it.raised # "none"
          THEN /\ EndRequest(u, mod, memNow, "Failure")
               /\ NoCommit(u, TRUE)
               /\ UNCHANGED <<orders, yielded>>
        ELSE IF errors # <<>>
          THEN /\ EndRequest(u, mod, memNow, "InsufficientStock")
               /\ yielded' = [yielded EXCEPT ![u] = errors]
               /\ orders' = Append(orders, NewOrder(u, <<>>))
               /\ AfterCommit(u)
        ELSE IF items = <<>>
          THEN /\ EndRequest(u, mod, memNow, "NoValidItems")
               /\ orders' = Append(orders, NewOrder(u, <<>>))
               /\ AfterCommit(u)
               /\ UNCHANGED yielded
        ELSE /\ tx' = [tx EXCEPT ![u].items = items]
             /\ pc' = [pc EXCEPT ![u] = "decrement"]
             /\ NoCommit(u, FALSE)
             /\ UNCHANGED <<orders, session, cartVars, target, todo, result,
                            yielded>>
  /\ UNCHANGED <<user, reviewVars, catalog, stock, price, available, ops>>

DecrementedByOne(stockNow, quantity) == stockNow - 1

DecrementedTwice(stockNow, quantity) == stockNow - 2 * quantity

\* product.stock -= item["quantity"]
Decremented(stockNow, quantity) == stockNow - quantity

RECURSIVE DecrementAll(_, _, _)
DecrementAll(u, items, w) ==
  IF items = <<>> THEN w
  ELSE LET it == Head(items)
           p  == it.product_id
           s  == IF p \in DOMAIN w THEN w[p] ELSE stock[p]
       IN DecrementAll(u, Tail(items),
            IF IsValidCartItem(it) /\ s >= it.quantity
              THEN WriteStock(w, p, Decremented(s, it.quantity)) ELSE w)

\* The second loop over the cart: the products are queried again and the
\* stock of every line that is valid and in stock is written.
OrderCreateDecrement(u) ==
  /\ pc[u] = "decrement"
  /\ LET it     == CartIter(handle[u], catalog)
         mod    == modified[u] \/ it.saved
         memNow == IF aliased[u] \/ it.saved THEN it.cart ELSE mem[u]
     IN IF it.raised # "none"
          THEN EndRequest(u, mod, memNow, "Failure")
          ELSE /\ tx' = [tx EXCEPT ![u].stockW =
                                     DecrementAll(u, it.items, tx[u].stockW)]
               /\ pc' = [pc EXCEPT ![u] = "clear"]
               /\ UNCHANGED <<session, cartVars, target, todo, result>>
  /\ NoCommit(u, pc'[u] = "idle")
  /\ UNCHANGED <<dbVars, yielded, ops>>

\* Cart.clear: a new empty dict is stored in the session; Cart.cart keeps
\* the old dict.
OrderCreateClear(u) ==
  /\ pc[u] = "clear"
  /\ mem'      = [mem EXCEPT ![u] = <<>>]
  /\ aliased'  = [aliased EXCEPT ![u] = FALSE]
  /\ modified' = [modified EXCEPT ![u] = TRUE]
  /\ pc'       = [pc EXCEPT ![u] = "commit"]
  /\ UNCHANGED <<dbVars, session, handle, tx, target, todo, result, yielded,
                 ops, undisturbed>>

\* The with-block is left by the return of the success path: commit.
OrderCreateCommit(u) ==
  /\ pc[u] = "commit"
  /\ orders' = Append(orders, NewOrder(u, tx[u].items))
  /\ stock'  = CommitStock(tx[u].stockW)
  /\ EndRequest(u, modified[u], mem[u], "Created")
  /\ AfterCommit(u)
  /\ UNCHANGED <<user, reviewVars, catalog, price, available, yielded, ops>>

\* An exception inside the with-block (a persistence failure at any of its
\* statements, or at the commit): the transaction rolls back, the handler
\* reports it and renders the form again.
OrderCreateFail(u) ==
  /\ pc[u] \in {"validate", "decrement", "clear", "commit"}
  /\ EndRequest(u, modified[u], mem[u], "Failure")
  /\ NoCommit(u, TRUE)
  /\ UNCHANGED <<dbVars, yielded, ops>>

\* ------------------------------------------------------------ order_cancel
CancellableUnlessCancelled(status) == status # "cancelled"

\* order.status not in ["pending", "processing"] is refused.
Cancellable(status) == status \in {"pending", "processing"}

RestoredByOne(stockNow, quantity) == stockNow + 1

\* product.stock += item.quantity
Restored(stockNow, quantity) == stockNow + quantity

OwnedByAnyone(order, who) == TRUE

\* get_object_or_404(Order, id=order_id, user=request.user)
OwnedBy(order, who) == order.user = who

CancelledWithoutItems(order) == [order EXCEPT !.status = "cancelled", !.items = <<>>]

\* order.status = "cancelled"; order.save(update_fields=['status'])
CancelledOrder(order) == [order EXCEPT !.status = "cancelled"]

\* order_cancel, for a POST, up to the with-block: the order is looked up by
\* id and owner, and its status is checked, outside the transaction.
OrderCancelBegin(u, o) ==
  /\ pc[u] = "idle"
  /\ IF o \notin DOMAIN orders \/ ~OwnedBy(orders[o], user[u])
       THEN EndRequest(u, FALSE, <<>>, "NotFound")
     ELSE IF ~Cancellable(orders[o].status)
       THEN EndRequest(u, FALSE, <<>>, "InvalidTransition")
     ELSE /\ pc' = [pc EXCEPT ![u] = "restore"]
          /\ tx' = [tx EXCEPT ![u] = [open |-> TRUE, items |-> <<>>,
                                        stockW |-> <<>>]]
          /\ target' = [target EXCEPT ![u] = o]
          /\ todo' = [todo EXCEPT ![u] = orders[o].items]
          /\ result' = [result EXCEPT ![u] = "running"]
          /\ UNCHANGED <<session, cartVars>>
  /\ NoCommit(u, FALSE)
  /\ UNCHANGED <<dbVars, yielded, ops>>

\* One turn of the loop over order.items.all(): item.product is fetched and
\* its stock written back increased.
OrderCancelRestore(u) ==
  /\ pc[u] = "restore"
  /\ todo[u] # <<>>
  /\ LET it == Head(todo[u])
     IN tx' = [tx EXCEPT ![u].stockW =
                 WriteStock(@, it.product,
                            Restored(ReadStock(u, it.product), it.quantity))]
  /\ todo' = [todo EXCEPT ![u] = Tail(@)]
  /\ UNCHANGED <<dbVars, session, pc, cartVars, target, result, yielded, ops,
                 undisturbed>>

\* order.status = "cancelled"; order.save(update_fields=['status']); commit.
OrderCancelCommit(u) ==
  /\ pc[u] = "restore"
  /\ todo[u] = <<>>
  /\ stock'  = CommitStock(tx[u].stockW)
  /\ orders' = [orders EXCEPT ![target[u]] = CancelledOrder(@)]
  /\ EndRequest(u, FALSE, <<>>, "Cancelled")
  /\ AfterCommit(u)
  /\ UNCHANGED <<user, reviewVars, catalog, price, available, yielded, ops>>

\* An exception inside the with-block: rollback, reported to the visitor.
OrderCancelFail(u) ==
  /\ pc[u] = "restore"
  /\ EndRequest(u, FALSE, <<>>, "Failure")
  /\ NoCommit(u, TRUE)
  /\ UNCHANGED <<dbVars, yielded, ops>>

\* ------------------------------------------------------------------ reviews
\* Review rows are [id, product, user, rating]; title and comment are text
\* no code path looks into.
Ratings == {1, 5}

\* Ratings a form may carry: the valid ones and one beyond each end.
RatingInputs == {0, 6} \cup Ratings

ValidRatingAny(rating) == TRUE

\* validators=[MinValueValidator(1), MaxValueValidator(5)], run by the
\* ModelForm's is_valid().
ValidRating(rating) == rating >= 1 /\ rating <= 5

NoReview == [id |-> 0, product |-> "", user |-> "", rating |-> 0]

ReviewedNever(rows, p, who) == FALSE

\* Review.objects.filter(product=product, user=request.user).exists()
Reviewed(rows, p, who) == \E r \in rows : r.product = p /\ r.user = who

NoUniqueConstraint(rows, row) == TRUE

\* Meta.unique_together = ['product', 'user']: the table's unique constraint,
\* which an INSERT must pass.
UniqueTogether(rows, row) == ~Reviewed(rows, row.product, row.user)

\* add_review up to the form: the product is looked up and the visitor's
\* earlier review of it searched for.
AddReviewBegin(u, p) ==
  /\ pc[u] = "idle"
  /\ IF p \notin catalog
       THEN /\ EndRequest(u, FALSE, <<>>, "NotFound")
            /\ UNCHANGED reviewing
     ELSE IF Reviewed(reviews, p, user[u])
       THEN /\ EndRequest(u, FALSE, <<>>, "AlreadyReviewed")
            /\ UNCHANGED reviewing
     ELSE /\ pc' = [pc EXCEPT ![u] = "add_review"]
          /\ reviewing' = [reviewing EXCEPT ![u] =
                             [NoReview EXCEPT !.product = p, !.user = user[u]]]
          /\ result' = [result EXCEPT ![u] = "running"]
          /\ UNCHANGED <<session, cartVars, tx, target, todo>>
  /\ NoCommit(u, pc'[u] = "idle")
  /\ UNCHANGED <<user, catalog, stock, price, available, orders, reviews,
                 reviewSeq, voteVars, yielded, ops>>

\* review.save() of a new instance: an INSERT with the next id, refused with
\* IntegrityError when the constraint fails.
AddReviewSave(u, rating) ==
  /\ pc[u] = "add_review"
  /\ reviewSeq < MaxReviews
  /\ LET row == [reviewing[u] EXCEPT !.id = reviewSeq + 1, !.rating = rating]
     IN IF ~ValidRating(rating)
          THEN /\ EndRequest(u, FALSE, <<>>, "InvalidRating")
               /\ UNCHANGED <<reviews, reviewSeq>>
        ELSE IF UniqueTogether(reviews, row)
          THEN /\ reviews' = reviews \cup {row}
               /\ reviewSeq' = reviewSeq + 1
               /\ EndRequest(u, FALSE, <<>>, "Reviewed")
          ELSE /\ EndRequest(u, FALSE, <<>>, "IntegrityError")
               /\ UNCHANGED <<reviews, reviewSeq>>
  /\ reviewing' = [reviewing EXCEPT ![u] = NoReview]
  /\ NoCommit(u, TRUE)
  /\ UNCHANGED <<user, catalog, stock, price, available, orders, voteVars,
                 yielded, ops>>

\* edit_review up to the form: the visitor's own review is loaded by id.
EditReviewBegin(u, id) ==
  /\ pc[u] = "idle"
  /\ IF \E r \in reviews : r.id = id /\ r.user = user[u]
       THEN /\ pc' = [pc EXCEPT ![u] = "edit_review"]
            /\ reviewing' = [reviewing EXCEPT ![u] =
                               CHOOSE r \in reviews : r.id = id]
            /\ result' = [result EXCEPT ![u] = "running"]
            /\ UNCHANGED <<session, cartVars, tx, target, todo>>
       ELSE /\ EndRequest(u, FALSE, <<>>, "NotFound")
            /\ UNCHANGED reviewing
  /\ NoCommit(u, pc'[u] = "idle")
  /\ UNCHANGED <<user, catalog, stock, price, available, orders, reviews,
                 reviewSeq, voteVars, yielded, ops>>

\* form.save() of the loaded instance: Model.save() updates the row with
\* that id, and inserts the instance when no row has the id any more.
EditReviewSave(u, rating) ==
  /\ pc[u] = "edit_review"
  /\ LET row  == [reviewing[u] EXCEPT !.rating = rating]
         rest == {r \in reviews : r.id # row.id}
     IN IF ~ValidRating(rating)
          THEN /\ EndRequest(u, FALSE, <<>>, "InvalidRating")
               /\ UNCHANGED reviews
        ELSE IF rest # reviews
          THEN /\ reviews' = rest \cup {row}
               /\ EndRequest(u, FALSE, <<>>, "Edited")
        ELSE IF UniqueTogether(reviews, row)
          THEN /\ reviews' = reviews \cup {row}
               /\ EndRequest(u, FALSE, <<>>, "Edited")
        ELSE /\ EndRequest(u, FALSE, <<>>, "IntegrityError")
             /\ UNCHANGED reviews
  /\ reviewing' = [reviewing EXCEPT ![u] = NoReview]
  /\ NoCommit(u, TRUE)
  /\ UNCHANGED <<user, catalog, stock, price, available, orders, reviewSeq,
                 voteVars, yielded, ops>>

\* delete_review (POST): the visitor's own review is loaded by id and
\* deleted, and its helpful votes with it (on_delete=CASCADE).
DeleteReview(u, id) ==
  /\ pc[u] = "idle"
  /\ IF \E r \in reviews : r.id = id /\ r.user = user[u]
       THEN /\ reviews' = {r \in reviews : r.id # id}
            /\ helpful' = {v \in helpful : v.review # id}
            /\ EndRequest(u, FALSE, <<>>, "Deleted")
       ELSE /\ EndRequest(u, FALSE, <<>>, "NotFound")
            /\ UNCHANGED <<reviews, helpful>>
  /\ NoCommit(u, TRUE)
  /\ UNCHANGED <<user, catalog, stock, price, available, orders, reviewSeq,
                 reviewing, helpfulSeq, voting, yielded, ops>>

\* ------------------------------------------------------------ helpful votes
NoVote == [id |-> 0, review |-> 0, user |-> ""]

\* ReviewHelpful.objects.filter(review=review, user=request.user)
VotesOf(votes, id, who) == {v \in votes : v.review = id /\ v.user = who}

\* review.helpful_votes.count()
HelpfulCount(votes, id) == Cardinality({v \in votes : v.review = id})

\* The body of the JsonResponse of a toggle.
HelpfulResponse(votes, id, isHelpful) ==
  <<[is_helpful |-> isHelpful, helpful_count |-> HelpfulCount(votes, id)]>>

IsOwnerNever(row, who) == FALSE

\* review.user == request.user
IsOwner(row, who) == row.user = who

NoVoteConstraint(votes, row) == TRUE

\* Meta.unique_together = ['review', 'user']: the table's unique constraint,
\* which an INSERT must pass.
VoteUnique(votes, row) == VotesOf(votes, row.review, row.user) = {}

VoteKept(votes, vote) == votes

\* helpful_vote.delete(): the row with the instance's id goes, if it is
\* still there.
VoteRemoved(votes, vote) == {v \in votes : v.id # vote.id}

\* mark_helpful up to the first query of get_or_create: the review is looked
\* up, the owner is turned away, and the visitor's vote is fetched; when
\* there is none the request goes on to create it.
MarkHelpfulBegin(u, id) ==
  /\ pc[u] = "idle"
  /\ IF ~\E r \in reviews : r.id = id
       THEN /\ EndRequest(u, FALSE, <<>>, "NotFound")
            /\ UNCHANGED <<reviewing, voting>>
     ELSE LET review == CHOOSE r \in reviews : r.id = id
              found  == VotesOf(helpful, id, user[u])
          IN IF IsOwner(review, user[u])
               THEN /\ EndRequest(u, FALSE, <<>>, "SelfVote")
                    /\ UNCHANGED <<reviewing, voting>>
             ELSE /\ pc' = [pc EXCEPT ![u] = IF found # {} THEN "unmark" ELSE "mark"]
                  /\ reviewing' = [reviewing EXCEPT ![u] = review]
                  /\ voting' = [voting EXCEPT ![u] =
                                  IF found # {} THEN CHOOSE v \in found : TRUE
                                  ELSE [NoVote EXCEPT !.review = id, !.user = user[u]]]
                  /\ result' = [result EXCEPT ![u] = "running"]
                  /\ UNCHANGED <<session, cartVars, tx, target, todo>>
  /\ NoCommit(u, pc'[u] = "idle")
  /\ UNCHANGED <<user, catalog, stock, price, available, orders, reviews,
                 reviewSeq, helpful, helpfulSeq, yielded, ops>>

\* A write to the votes table is a commit that the requests in flight see.
VotesWritten(u) ==
  IF helpful' # helpful THEN AfterCommit(u) ELSE NoCommit(u, TRUE)

\* The create of get_or_create: an INSERT with the next id.  When the
\* constraint refuses it, get_or_create fetches the row that is there and
\* reports it as not created, and the view deletes it.  When the review is
\* gone the INSERT fails on its foreign key and nothing recovers.
MarkHelpfulCreate(u) ==
  /\ pc[u] = "mark"
  /\ helpfulSeq < MaxVotes
  /\ LET row == [voting[u] EXCEPT !.id = helpfulSeq + 1]
         id  == row.review
     IN IF ~\E r \in reviews : r.id = id
          THEN /\ EndRequest(u, FALSE, <<>>, "IntegrityError")
               /\ UNCHANGED <<helpful, helpfulSeq, yielded>>
        ELSE IF VoteUnique(helpful, row)
          THEN /\ helpful' = helpful \cup {row}
               /\ helpfulSeq' = helpfulSeq + 1
               /\ yielded' = [yielded EXCEPT ![u] = HelpfulResponse(helpful', id, TRUE)]
               /\ EndRequest(u, FALSE, <<>>, "Marked")
        ELSE /\ helpful' = VoteRemoved(helpful,
                             CHOOSE v \in VotesOf(helpful, id, row.user) : TRUE)
             /\ yielded' = [yielded EXCEPT ![u] = HelpfulResponse(helpful', id, FALSE)]
             /\ EndRequest(u, FALSE, <<>>, "Unmarked")
             /\ UNCHANGED helpfulSeq
  /\ reviewing' = [reviewing EXCEPT ![u] = NoReview]
  /\ voting' = [voting EXCEPT ![u] = NoVote]
  /\ VotesWritten(u)
  /\ UNCHANGED <<user, catalog, stock, price, available, orders, reviews,
                 reviewSeq, ops>>

\* not created: the vote that was found is deleted, and the votes of the
\* review are counted for the response.
MarkHelpfulRemove(u) ==
  /\ pc[u] = "unmark"
  /\ helpful' = VoteRemoved(helpful, voting[u])
  /\ yielded' = [yielded EXCEPT ![u] =
                   HelpfulResponse(helpful', reviewing[u].id, FALSE)]
  /\ reviewing' = [reviewing EXCEPT ![u] = NoReview]
  /\ voting' = [voting EXCEPT ![u] = NoVote]
  /\ EndRequest(u, FALSE, <<>>, "Unmarked")
  /\ VotesWritten(u)
  /\ UNCHANGED <<user, catalog, stock, price, available, orders, reviews,
                 reviewSeq, helpfulSeq, ops>>

\* ------------------------------------------------------- initial states
InitPrice == [p \in Products |-> IF p = "pA" THEN 1999 ELSE 500]

InitProduct(p) ==
  [id |-> p, price |-> InitPrice[p], stock |-> InitStock, available |-> TRUE]

\* Carts a visitor can have built with cart_add from the initial catalog:
\* empty, one line of MaxQty, or that and one unit of the other product.
OneLineCarts ==
  {CartAdd(<<>>, InitProduct(p), MaxQty, FALSE).cart : p \in Products}

InitCarts ==
  {<<>>} \cup OneLineCarts \cup
  UNION {{CartAdd(CartAdd(<<>>, InitProduct(p), MaxQty, FALSE).cart,
                  InitProduct(q), 1, FALSE).cart : q \in Products \ {p}} :
         p \in Products}

\* An order placed earlier, which the back office has taken up since
\* (OrderAdmin edits status in its list): it is processing or completed.
EarlierStatuses == {"processing", "completed"}

EarlierOrder(status) ==
  [user |-> "alice", status |-> status,
   items |-> <<[product |-> "pA", price |-> InitPrice["pA"], quantity |-> 1]>>]

InitSessions ==
  /\ pc = [u \in Sessions |-> "idle"]
  /\ handle = [u \in Sessions |-> <<>>]
  /\ mem = [u \in Sessions |-> <<>>]
  /\ aliased = [u \in Sessions |-> FALSE]
  /\ modified = [u \in Sessions |-> FALSE]
  /\ tx = [u \in Sessions |-> NoTx]
  /\ target = [u \in Sessions |-> 0]
  /\ todo = [u \in Sessions |-> <<>>]
  /\ result = [u \in Sessions |-> "none"]
  /\ yielded = [u \in Sessions |-> <<>>]
  /\ ops = [u \in Sessions |-> 0]
  /\ undisturbed = [u \in Sessions |-> TRUE]
  /\ reviewing = [u \in Sessions |-> NoReview]
  /\ helpful = {}
  /\ helpfulSeq = 0
  /\ voting = [u \in Sessions |-> NoVote]

InitRequests ==
  /\ InitSessions
  /\ reviews = {}
  /\ reviewSeq = 0

InitCatalog ==
  /\ catalog = Products
  /\ stock = [p \in Products |-> InitStock]
  /\ price = InitPrice
  /\ available = [p \in Products |-> TRUE]

\* The first session is alice's; the second is hers too, or bob's.
Init ==
  /\ user \in {f \in [Sessions -> Identities] : f["s1"] = "alice"}
  /\ InitCatalog
  /\ \E status \in EarlierStatuses : orders = <<EarlierOrder(status)>>
  /\ session \in [Sessions -> InitCarts]
  /\ InitRequests

Next ==
  \E u \in Sessions :
    \/ OrderCreateBegin(u)
    \/ OrderCreateValidate(u)
    \/ OrderCreateDecrement(u)
    \/ OrderCreateClear(u)
    \/ OrderCreateCommit(u)
    \/ OrderCreateFail(u)
    \/ \E o \in 1..MaxOrders : OrderCancelBegin(u, o)
    \/ OrderCancelRestore(u)
    \/ OrderCancelCommit(u)
    \/ OrderCancelFail(u)

Spec == Init /\ [][Next]_vars

\* ======================================================= the reviews
\* Two sessions, of one identity or of two, review the products.
InitReviews ==
  /\ user \in {f \in [Sessions -> Identities] : f["s1"] = "alice"}
  /\ InitCatalog
  /\ orders = <<>>
  /\ session = [u \in Sessions |-> <<>>]
  /\ InitRequests

NextReviews ==
  \E u \in Sessions :
    \/ \E p \in Products : AddReviewBegin(u, p)
    \/ \E rating \in RatingInputs : AddReviewSave(u, rating)
    \/ \E id \in 1..MaxReviews : EditReviewBegin(u, id)
    \/ \E rating \in RatingInputs : EditReviewSave(u, rating)
    \/ \E id \in 1..MaxReviews : DeleteReview(u, id)

SpecReviews == InitReviews /\ [][NextReviews]_vars

\* ================================================== the helpful votes
\* The sessions write five-star reviews of one product, delete them, and
\* mark the reviews they see as helpful.
Rated == {"pA"}

NextHelpful ==
  \E u \in Sessions :
    \/ \E p \in Rated : AddReviewBegin(u, p)
    \/ AddReviewSave(u, 5)
    \/ \E id \in 1..MaxReviews : DeleteReview(u, id)
    \/ \E id \in 1..MaxReviews : MarkHelpfulBegin(u, id)
    \/ MarkHelpfulCreate(u)
    \/ MarkHelpfulRemove(u)

SpecHelpful == InitReviews /\ [][NextHelpful]_vars

\* ============================================ one voter in two sessions
\* A visitor with two sessions (two tabs, or a double click) toggles the
\* vote on a review that another identity wrote earlier.
EarlierReview == [id |-> 1, product |-> "pA", user |-> "bob", rating |-> 5]

InitVotes ==
  /\ user = [u \in Sessions |-> "alice"]
  /\ InitCatalog
  /\ orders = <<>>
  /\ session = [u \in Sessions |-> <<>>]
  /\ InitSessions
  /\ reviews = {EarlierReview}
  /\ reviewSeq = 1

NextVotes ==
  \E u \in Sessions :
    \/ \E id \in 1..MaxReviews : MarkHelpfulBegin(u, id)
    \/ MarkHelpfulCreate(u)
    \/ MarkHelpfulRemove(u)

SpecVotes == InitVotes /\ [][NextVotes]_vars

\* ===================================================== the cart by itself
\* One visitor's requests against the Cart class: a handle is opened, cart
\* calls are made on it, and the response closes it; the cart views are
\* whole requests.  The back office deletes products meanwhile.
Shoppers == {"s1"}

orderVars == <<user, reviewVars, orders, stock, price, available, tx, target, todo, undisturbed>>

\* What a cart call leaves behind: the dict it worked on, and the session
\* entry, which is that same dict unless clear() has replaced it.
AfterCall(u, newCart, saved, outcome) ==
  /\ handle'   = [handle EXCEPT ![u] = newCart]
  /\ mem'      = [mem EXCEPT ![u] = IF aliased[u] \/ saved THEN newCart ELSE @]
  /\ aliased'  = [aliased EXCEPT ![u] = @ \/ saved]
  /\ modified' = [modified EXCEPT ![u] = @ \/ saved]
  /\ result'   = [result EXCEPT ![u] = outcome]
  /\ ops'      = [ops EXCEPT ![u] = @ + 1]

Outcome(raised) == IF raised = "none" THEN "ok" ELSE raised

\* cart = Cart(request)
HandleOpen(u) ==
  /\ pc[u] = "idle"
  /\ CartOpen(u)
  /\ ops[u] < MaxOps
  /\ pc' = [pc EXCEPT ![u] = "cart"]
  /\ result' = [result EXCEPT ![u] = "none"]
  /\ yielded' = [yielded EXCEPT ![u] = <<>>]
  /\ UNCHANGED <<catalog, session, ops, orderVars>>

\* cart.add(product, quantity, override_quantity) for a product that exists
ApiAdd(u, p, quantity, override) ==
  /\ pc[u] = "cart"
  /\ ops[u] < MaxOps
  /\ p \in catalog
  /\ LET r == CartAdd(handle[u], Product(p), quantity, override)
     IN AfterCall(u, r.cart, r.saved, Outcome(r.raised))
  /\ yielded' = [yielded EXCEPT ![u] = <<>>]
  /\ UNCHANGED <<catalog, session, pc, orderVars>>

\* cart.remove(product_id)
ApiRemove(u, p) ==
  /\ pc[u] = "cart"
  /\ ops[u] < MaxOps
  /\ LET r == CartRemove(handle[u], p)
     IN AfterCall(u, r.cart, r.saved, "removed")
  /\ yielded' = [yielded EXCEPT ![u] = <<>>]
  /\ UNCHANGED <<catalog, session, pc, orderVars>>

\* cart.clear(): the session gets a new empty dict; self.cart is not rebound.
ApiClear(u) ==
  /\ pc[u] = "cart"
  /\ ops[u] < MaxOps
  /\ mem'      = [mem EXCEPT ![u] = <<>>]
  /\ aliased'  = [aliased EXCEPT ![u] = FALSE]
  /\ modified' = [modified EXCEPT ![u] = TRUE]
  /\ result'   = [result EXCEPT ![u] = "ok"]
  /\ ops'      = [ops EXCEPT ![u] = @ + 1]
  /\ yielded'  = [yielded EXCEPT ![u] = <<>>]
  /\ UNCHANGED <<catalog, session, pc, handle, orderVars>>

\* for item in cart: ...  (the caller consumes every record)
ApiIter(u) ==
  /\ pc[u] = "cart"
  /\ ops[u] < MaxOps
  /\ LET it == CartIter(handle[u], catalog)
     IN /\ AfterCall(u, it.cart, it.saved, Outcome(it.raised))
        /\ yielded' = [yielded EXCEPT ![u] = it.items]
  /\ UNCHANGED <<catalog, session, pc, orderVars>>

\* cart.get_total_price() and cart.get_total_items(), as the checkout page
\* asks for them.
ApiTotals(u) ==
  /\ pc[u] = "cart"
  /\ ops[u] < MaxOps
  /\ AfterCall(u, handle[u], FALSE, "ok")
  /\ yielded' = [yielded EXCEPT ![u] =
                   <<[total_price |-> TotalPrice(handle[u]),
                      total_items |-> CartLen(handle[u])]>>]
  /\ UNCHANGED <<catalog, session, pc, orderVars>>

\* The response of the request that held the handle.
HandleClose(u) ==
  /\ pc[u] = "cart"
  /\ session'  = [session EXCEPT ![u] = IF modified[u] THEN mem[u] ELSE @]
  /\ pc'       = [pc EXCEPT ![u] = "idle"]
  /\ handle'   = [handle EXCEPT ![u] = <<>>]
  /\ mem'      = [mem EXCEPT ![u] = <<>>]
  /\ aliased'  = [aliased EXCEPT ![u] = FALSE]
  /\ modified' = [modified EXCEPT ![u] = FALSE]
  /\ UNCHANGED <<catalog, result, yielded, ops, orderVars>>

\* The end of a view: the session is written back when it was modified and
\* the response is not a 500.
ViewEnd(u, save, memNow, outcome, records) ==
  /\ session' = [session EXCEPT ![u] = IF save THEN memNow ELSE @]
  /\ result'  = [result EXCEPT ![u] = outcome]
  /\ yielded' = [yielded EXCEPT ![u] = records]
  /\ UNCHANGED <<catalog, pc, cartVars, ops, orderVars>>

\* cart_add (POST).  A product that is missing or unavailable is a 404
\* raised inside the try; its handler looks the product up again for the
\* redirect, which raises again when the product is missing, and then
\* safe_cart_operation pops the whole cart from the session.
CartAddView(u, p, quantity, ajax) ==
  /\ pc[u] = "idle"
  /\ LET opened == session[u] = <<>>      \* Cart.__init__ stored a new dict
     IN IF p \notin catalog \/ ~available[p]
          THEN IF ajax THEN ViewEnd(u, FALSE, <<>>, "Error500", <<>>)
               ELSE IF p \in catalog
                 THEN ViewEnd(u, opened, session[u], "NotFound", <<>>)
               ELSE ViewEnd(u, TRUE, <<>>, "CartCleared", <<>>)
        ELSE IF quantity <= 0 \/ quantity > stock[p]
          THEN ViewEnd(u, opened, session[u], "BadQuantity", <<>>)
        ELSE LET r == CartAdd(session[u], Product(p), quantity, FALSE)
             IN IF r.raised # "none"
                  THEN ViewEnd(u, (opened \/ r.saved) /\ ~ajax, r.cart,
                               IF ajax THEN "Error500" ELSE r.raised, <<>>)
                  ELSE ViewEnd(u, TRUE, r.cart, "ok", <<>>)

\* cart_update (POST).  The product is looked up whether available or not; a
\* missing product, or an unavailable one refused by Cart.add, is an exception
\* that reaches safe_cart_operation.  A quantity of 0 or less calls
\* cart.remove(product) with the Product object, whose key is its name.
CartUpdateView(u, p, quantity, ajax) ==
  /\ pc[u] = "idle"
  /\ LET opened == session[u] = <<>>
     IN IF p \notin catalog
          THEN IF ajax THEN ViewEnd(u, FALSE, <<>>, "Error500", <<>>)
               ELSE ViewEnd(u, TRUE, <<>>, "CartCleared", <<>>)
        ELSE IF quantity > stock[p]
          THEN ViewEnd(u, opened, session[u], "BadQuantity", <<>>)
        ELSE IF quantity > 0
          THEN LET r == CartAdd(session[u], Product(p), quantity, TRUE)
               IN IF r.raised # "none"
                    THEN IF ajax THEN ViewEnd(u, FALSE, <<>>, "Error500", <<>>)
                         ELSE ViewEnd(u, TRUE, <<>>, "CartCleared", <<>>)
                    ELSE ViewEnd(u, TRUE, r.cart, "Updated", <<>>)
        ELSE LET r == CartRemove(session[u], NameOf(p))
             IN ViewEnd(u, opened \/ r.saved, r.cart, "Updated", <<>>)

\* cart_detail: the lines are read with get_cart_data_for_json, which walks
\* the dict and removes missing products as __iter__ does; any exception
\* pops the whole cart from the session.
CartDetailView(u) ==
  /\ pc[u] = "idle"
  /\ LET it == CartIter(session[u], catalog)
     IN IF it.raised # "none"
          THEN ViewEnd(u, TRUE, <<>>, "DetailCleared", <<>>)
          ELSE ViewEnd(u, session[u] = <<>>, session[u], "ok", it.items)

\* The back office deletes a product.
DeleteProduct(p) ==
  /\ p \in catalog
  /\ catalog' = catalog \ {p}
  /\ UNCHANGED <<session, pc, cartVars, result, yielded, ops, orderVars>>

\* The back office ticks or unticks a product's available box in the list.
SetAvailable(p, b) ==
  /\ p \in catalog
  /\ available[p] # b
  /\ available' = [available EXCEPT ![p] = b]
  /\ UNCHANGED <<user, reviewVars, catalog, stock, price, orders, session, pc, cartVars,
                 tx, target, todo, result, yielded, ops, undisturbed>>

\* Quantities a caller passes: a negative one, one unit, the largest.
QtyInputs == {-1, 1, MaxQty}

InitCart ==
  /\ user = [u \in Sessions |-> "alice"]
  /\ InitCatalog
  /\ orders = <<>>
  /\ session = [u \in Sessions |-> <<>>]
  /\ InitRequests

NextCart ==
  \/ \E u \in Shoppers :
       \/ HandleOpen(u)
       \/ \E p \in Products, q \in QtyInputs, o \in BOOLEAN : ApiAdd(u, p, q, o)
       \/ \E p \in Products : ApiRemove(u, p)
       \/ ApiClear(u)
       \/ ApiIter(u)
       \/ HandleClose(u)
       \/ \E p \in Products, q \in QtyInputs, a \in BOOLEAN : CartAddView(u, p, q, a)
       \/ CartDetailView(u)
       \/ \E p \in Products, q \in QtyInputs, a \in BOOLEAN : CartUpdateView(u, p, q, a)
       \/ ApiTotals(u)
  \/ \E p \in Products : DeleteProduct(p)

SpecCart == InitCart /\ [][NextCart]_vars

\* ============================================= the cart and availability
\* The visitor's add calls on a handle while the back office takes products
\* off sale and puts them back.
NextAvail ==
  \/ \E u \in Shoppers :
       \/ HandleOpen(u)
       \/ \E p \in Products, q \in QtyInputs, o \in BOOLEAN : ApiAdd(u, p, q, o)
       \/ HandleClose(u)
  \/ \E p \in Products, b \in BOOLEAN : SetAvailable(p, b)

SpecAvail == InitCart /\ [][NextAvail]_vars

\* ================================================ the shop and its prices
\* One visitor fills the cart and orders while the back office edits the
\* price of a product in the list (ProductAdmin.list_editable): Product.clean
\* refuses a negative price and nothing refuses 0.
Prices   == {0, 1999, 2499}
Repriced == {"pA"}

SetPrice(p, cents) ==
  /\ p \in catalog
  /\ price[p] # cents
  /\ price' = [price EXCEPT ![p] = cents]
  /\ UNCHANGED <<user, reviewVars, catalog, stock, available, orders, session, pc,
                 cartVars, tx, target, todo, result, yielded, ops, undisturbed>>

NextShop ==
  \/ \E u \in Shoppers :
       \/ \E p \in Products, q \in QtyInputs, a \in BOOLEAN : CartAddView(u, p, q, a)
       \/ OrderCreateBegin(u)
       \/ OrderCreateValidate(u)
       \/ OrderCreateDecrement(u)
       \/ OrderCreateClear(u)
       \/ OrderCreateCommit(u)
       \/ OrderCreateFail(u)
  \/ \E p \in Repriced, c \in Prices : SetPrice(p, c)

\* The orders table has room for one more order.
InitShop ==
  /\ user = [u \in Sessions |-> "alice"]
  /\ InitCatalog
  /\ orders = [o \in 1..(MaxOrders - 1) |-> EarlierOrder("completed")]
  /\ session = [u \in Sessions |-> <<>>]
  /\ InitRequests

SpecShop == InitShop /\ [][NextShop]_vars

\* ================================================ the shop and its stock
\* One visitor fills the cart and orders while the back office edits the
\* stock of the products in the list (ProductAdmin.list_editable): the
\* stock is a PositiveIntegerField, which takes 0.
StockLevels == {0, 2}

SetStock(p, n) ==
  /\ p \in catalog
  /\ stock[p] # n
  /\ stock' = [stock EXCEPT ![p] = n]
  /\ UNCHANGED <<user, reviewVars, catalog, price, available, orders, session, pc,
                 cartVars, tx, target, todo, result, yielded, ops, undisturbed>>

NextStock ==
  \/ \E u \in Shoppers :
       \/ \E p \in Products, q \in QtyInputs, a \in BOOLEAN : CartAddView(u, p, q, a)
       \/ OrderCreateBegin(u)
       \/ OrderCreateValidate(u)
       \/ OrderCreateDecrement(u)
       \/ OrderCreateClear(u)
       \/ OrderCreateCommit(u)
       \/ OrderCreateFail(u)
  \/ \E p \in Products, n \in StockLevels : SetStock(p, n)

SpecStock == InitShop /\ [][NextStock]_vars

\* ================================================ the cart and the prices
\* One visitor adds to the cart, iterates it and asks for its totals while
\* the back office edits the price of a product.
NextPrice ==
  \/ \E u \in Shoppers :
       \/ HandleOpen(u)
       \/ \E p \in Products, q \in QtyInputs, o \in BOOLEAN : ApiAdd(u, p, q, o)
       \/ ApiIter(u)
       \/ ApiTotals(u)
       \/ HandleClose(u)
  \/ \E p \in Repriced, c \in Prices : SetPrice(p, c)

SpecPrice == InitCart /\ [][NextPrice]_vars

\* ================================================================= claims
CreatePcs == {"validate", "decrement", "clear", "commit"}

RECURSIVE SumQty(_, _)
SumQty(items, p) ==
  IF items = <<>> THEN 0
  ELSE (IF Head(items).product = p THEN Head(items).quantity ELSE 0)
       + SumQty(Tail(items), p)

LastOrder(os) == os[Len(os)]

OthersNeverAsked(u) == \A v \in Sessions \ {u} : result[v] = "none"

\* C1: of concurrent create_order requests whose combined demand exceeds a
\* product's stock (two requests for 3 against a stock of 5) at most one
\* succeeds and the stock never goes negative: a request ends Created only
\* when the committed stock at that moment covers each of its order items.
C1_AtMostOneSucceeds ==
  [][\A u \in Sessions :
       (pc[u] = "commit" /\ result'[u] = "Created")
       => /\ \A i \in 1..Len(tx[u].items) :
               stock[tx[u].items[i].product] >= tx[u].items[i].quantity
          /\ \A p \in Products : stock'[p] >= 0]_vars

\* C2: a create_order that ends with InsufficientStock leaves no Order row
\* and no OrderItem of its own, every stock and the cart as they were.
C2_StockErrorWritesNothing ==
  [][\A u \in Sessions :
       (pc[u] \in CreatePcs /\ result'[u] = "InsufficientStock")
       => /\ orders' = orders
          /\ stock' = stock
          /\ session'[u] = session[u]]_vars

\* C3: a create_order that fails after the order header was written leaves
\* no Order row and no OrderItem of its own, every stock as it was, and the
\* cart with exactly the lines it had before the call.
C3_FailureRollsBackAll ==
  [][\A u \in Sessions :
       (pc[u] \in CreatePcs /\ result'[u] = "Failure")
       => /\ orders' = orders
          /\ stock' = stock
          /\ session'[u] = session[u]]_vars

\* C4: with no other request committing meanwhile, a create_order from a
\* cart whose lines are all valid and in stock ends Created, takes each
\* line's quantity off its product's stock and nothing off any other,
\* stores one OrderItem per cart line with the line's quantity, and leaves
\* the cart empty.
C4_CreateDecrementsAndClears ==
  [][\A u \in Sessions :
       (/\ pc[u] = "commit"
        /\ pc'[u] = "idle"
        /\ result'[u] # "Failure"
        /\ undisturbed[u]
        /\ \A i \in 1..Len(session[u]) :
             /\ session[u][i].quantity > 0
             /\ DecimalOf(session[u][i].price) > 0
             /\ session[u][i].quantity <= stock[session[u][i].product_id])
       => /\ result'[u] = "Created"
          /\ \A p \in Products : stock'[p] = stock[p] - Qty(session[u], p)
          /\ Len(orders') = Len(orders) + 1
          /\ LastOrder(orders').user = user[u]
          /\ Len(LastOrder(orders').items) = Len(session[u])
          /\ \A i \in 1..Len(session[u]) :
               /\ LastOrder(orders').items[i].product = session[u][i].product_id
               /\ LastOrder(orders').items[i].quantity = session[u][i].quantity
          /\ session'[u] = <<>>]_vars

C4_Witness ==
  \E u \in Sessions :
    /\ result[u] = "Created"
    /\ OthersNeverAsked(u)
    /\ Len(LastOrder(orders).items) = 2
    /\ session[u] = <<>>
    /\ \E p \in Products : stock[p] = InitStock - MaxQty

\* C5: cancel_order by the owner of a pending or processing order is not
\* rejected, and (no other request committing meanwhile) it sets the status
\* to cancelled and adds to each product's stock exactly the quantities of
\* the order's items for it; other products keep their stock.
C5_CancelRestoresStock ==
  [][\A u \in Sessions :
       /\ \A o \in DOMAIN orders :
            (OrderCancelBegin(u, o) /\ orders[o].user = user[u]
               /\ orders[o].status \in {"pending", "processing"})
            => (pc'[u] = "restore" /\ target'[u] = o)
       /\ (pc[u] = "restore" /\ pc'[u] = "idle" /\ result'[u] # "Failure"
             /\ undisturbed[u])
          => /\ result'[u] = "Cancelled"
             /\ orders'[target[u]].status = "cancelled"
             /\ \A p \in Products :
                  stock'[p] = stock[p] + SumQty(orders[target[u]].items, p)]_vars

C5_Witness ==
  \E u \in Sessions, o \in DOMAIN orders :
    /\ result[u] = "Cancelled"
    /\ OthersNeverAsked(u)
    /\ orders[o].user = user[u]
    /\ orders[o].status = "cancelled"
    /\ \E p \in Products : stock[p] = InitStock + SumQty(orders[o].items, p)
                           /\ SumQty(orders[o].items, p) > 0

\* C6: cancel_order by the owner of an order that is cancelled or completed
\* ends with InvalidTransition and changes neither a status nor a stock.
C6_TerminalOrderNotCancelled ==
  [][\A u \in Sessions, o \in DOMAIN orders :
       (OrderCancelBegin(u, o) /\ orders[o].user = user[u]
          /\ orders[o].status \in {"cancelled", "completed"})
       => /\ result'[u] = "InvalidTransition"
          /\ pc'[u] = "idle"
          /\ orders' = orders
          /\ stock' = stock]_vars

C6_Witness ==
  \E u \in Sessions, o \in DOMAIN orders :
    /\ result[u] = "InvalidTransition"
    /\ orders[o].user = user[u]
    /\ orders[o].status = "completed"

LiveLines(cart, exist) == SelectSeq(cart, LAMBDA l : l.product_id \in exist)

LiveRecords(cart, exist) ==
  [i \in 1..Len(LiveLines(cart, exist)) |-> IterRecord(LiveLines(cart, exist)[i])]

HasDeadLine(cart, exist) == \E i \in 1..Len(cart) : cart[i].product_id \notin exist

HasLiveLine(cart, exist) == \E i \in 1..Len(cart) : cart[i].product_id \in exist

\* C7: add(p, q) without override, on an available product and with q > 0,
\* raises the line of p by q when the sum is within the stock; when the sum
\* exceeds the stock it fails with OutOfStock and the cart is as it was
\* (the line still at its old quantity, or no line when there was none).
C7_AddWithinStockOrUnchanged ==
  [][\A u \in Shoppers, p \in Products, q \in QtyInputs :
       (ApiAdd(u, p, q, FALSE) /\ q > 0 /\ available[p])
       => IF Qty(handle[u], p) + q <= stock[p]
            THEN /\ result'[u] = "ok"
                 /\ Qty(handle'[u], p) = Qty(handle[u], p) + q
            ELSE /\ result'[u] = "OutOfStock"
                 /\ handle'[u] = handle[u]]_vars

\* C8: iterating a cart that holds lines of existing products and a line of
\* a deleted product raises nothing, yields one record for each line whose
\* product exists, and leaves exactly those lines in the cart and in the
\* session; the same holds of the cart page, which reads every line.
C8_IterationDropsOnlyDeadLines ==
  [][\A u \in Shoppers :
       /\ (ApiIter(u) /\ HasDeadLine(handle[u], catalog)
             /\ HasLiveLine(handle[u], catalog))
          => /\ result'[u] = "ok"
             /\ yielded'[u] = LiveRecords(handle[u], catalog)
             /\ handle'[u] = LiveLines(handle[u], catalog)
             /\ mem'[u] = LiveLines(handle[u], catalog)
       /\ (CartDetailView(u) /\ HasDeadLine(session[u], catalog)
             /\ HasLiveLine(session[u], catalog))
          => /\ result'[u] = "ok"
             /\ yielded'[u] = LiveRecords(session[u], catalog)
             /\ session'[u] = LiveLines(session[u], catalog)]_vars

\* C9: after clear() the cart is empty through the handle that cleared it
\* (total_items() = 0, total_price() = 0, iteration yields nothing) and in
\* the session; a later add on that handle puts into the session no line
\* but the one it adds; a second clear() changes nothing.
C9_ClearEmptiesCart ==
  [][\A u \in Shoppers :
       /\ ApiClear(u)
          => /\ CartLen(handle'[u]) = 0
             /\ TotalPrice(handle'[u]) = 0
             /\ CartIter(handle'[u], catalog).items = <<>>
             /\ mem'[u] = <<>>
       /\ \A p \in Products, q \in QtyInputs, o \in BOOLEAN :
            (ApiAdd(u, p, q, o) /\ ~aliased[u])
            => \A p2 \in Products \ {p} : Qty(mem'[u], p2) = Qty(mem[u], p2)
       /\ (ApiClear(u) /\ ~aliased[u] /\ mem[u] = <<>>)
          => (mem'[u] = mem[u] /\ handle'[u] = handle[u])]_vars

\* C10: an order that is cancelled or completed keeps its status in every
\* step of every create_order and cancel_order request.
C10_TerminalStatusStays ==
  [][\A o \in DOMAIN orders :
       orders[o].status \in {"cancelled", "completed"}
       => orders'[o].status = orders[o].status]_vars

C10_Witness ==
  \E u \in Sessions, o \in DOMAIN orders :
    /\ orders[o].status = "cancelled"
    /\ pc[u] = "restore"
    /\ target[u] = o

\* C11: under every interleaving of create_order and cancel_order requests
\* the committed stock of every product is at least 0, and so is every stock
\* value a request has written and not yet committed.
C11_StockNeverNegative ==
  /\ \A p \in Products : stock[p] >= 0
  /\ \A u \in Sessions : \A p \in DOMAIN tx[u].stockW : tx[u].stockW[p] >= 0

\* Two requests passed validation on the same stock; one has committed, and
\* the second loop of the other found the stock too low and wrote nothing.
C11_Witness ==
  \E u \in Sessions :
    /\ pc[u] = "clear"
    /\ \E i \in 1..Len(tx[u].items) :
         /\ tx[u].items[i].product \notin DOMAIN tx[u].stockW
         /\ stock[tx[u].items[i].product] < tx[u].items[i].quantity

\* C14: the commit that makes an order's OrderItems visible carries a stock
\* write for the product of each of them, and carries no stock write for a
\* product the order has no item of; the commit of cancel_order that sets
\* the status to cancelled carries the restored stock of every product of
\* the order; and no committed stock changes except in such a commit.
C14_ItemsAndStockMoveTogether ==
  [][/\ \A u \in Sessions :
          /\ (pc[u] = "commit" /\ result'[u] = "Created")
             => \A p \in Products :
                  (SumQty(tx[u].items, p) > 0) <=> (p \in DOMAIN tx[u].stockW)
          /\ (pc[u] = "restore" /\ result'[u] = "Cancelled")
             => /\ orders'[target[u]].status = "cancelled"
                /\ \A p \in Products :
                     (SumQty(orders[target[u]].items, p) > 0)
                       <=> (p \in DOMAIN tx[u].stockW)
     /\ (stock' # stock)
        => \E u \in Sessions : /\ pc[u] \in {"commit", "restore"}
                               /\ result'[u] \in {"Created", "Cancelled"}]_vars

AllPositive(cart) == \A i \in 1..Len(cart) : cart[i].quantity > 0

\* C12: after every add, remove and clear call, and after every cart view,
\* each line of the cart (of the handle, of the session entry of the request
\* and of the stored session) has a quantity above 0; an add on an available
\* product whose resulting quantity is 0 or less is not an error and leaves
\* no line of that product.
C12_QuantitiesStayPositive ==
  [][\A u \in Shoppers :
       /\ AllPositive(handle'[u])
       /\ AllPositive(mem'[u])
       /\ AllPositive(session'[u])
       /\ \A p \in Products, q \in QtyInputs, o \in BOOLEAN :
            (/\ ApiAdd(u, p, q, o)
             /\ available[p]
             /\ (IF o THEN q ELSE Qty(handle[u], p) + q) <= 0)
            => /\ result'[u] = "ok"
               /\ ~HasLine(handle'[u], p)]_vars

\* A failed add has left its line above the stock, and so above 0.
C12_Witness ==
  \E u \in Shoppers, p \in Products :
    /\ pc[u] = "cart"
    /\ result[u] = "OutOfStock"
    /\ Qty(handle[u], p) > stock[p]

RecordsOf(records, p) ==
  SelectSeq(records, LAMBDA r : r.product_id = p)

C17_RemoveIdempotent ==
  [][\A u \in Shoppers, p \in Products :
       ApiRemove(u, p)
       => /\ result'[u] = "removed"
          /\ handle'[u] = SelectSeq(handle[u], LAMBDA l : l.product_id # p)
          /\ ~HasLine(handle[u], p)
             => (handle'[u] = handle[u] /\ mem'[u] = mem[u]
                 /\ modified'[u] = modified[u])
          /\ CartRemove(handle'[u], p).cart = handle'[u]
          /\ ~CartRemove(handle'[u], p).saved]_vars

\* A line the stored session has is gone from the handle, and the call
\* just made was a remove.
C17_Witness ==
  \E u \in Shoppers, p \in Products :
    /\ pc[u] = "cart"
    /\ result[u] = "removed"
    /\ HasLine(session[u], p)
    /\ ~HasLine(handle[u], p)
    /\ handle[u] # <<>>

\* The sum, in whole cents, of snapshot price times quantity; in this
\* specification every snapshot is the product's catalog price.
CentsSum(cart) ==
  Qty(cart, "pA") * InitPrice["pA"] + Qty(cart, "pB") * InitPrice["pB"]

\* C18: total_price() is the exact sum over the cart's lines of snapshot
\* price times quantity, in cents; one line of 19.99 with quantity 3 gives
\* 59.97 and the empty cart gives 0.
C18_TotalPriceExact ==
  [][\A u \in Shoppers :
       ApiTotals(u)
       => /\ yielded'[u][1].total_price = CentsSum(handle[u])
          /\ (Len(handle[u]) = 1 /\ Qty(handle[u], "pA") = 3)
             => yielded'[u][1].total_price = 5997
          /\ handle[u] = <<>> => yielded'[u][1].total_price = 0]_vars

C18_Witness ==
  \E u \in Shoppers :
    /\ pc[u] = "cart"
    /\ Len(handle[u]) = 1
    /\ Qty(handle[u], "pA") = 3
    /\ yielded[u] = <<[total_price |-> 5997, total_items |-> 3]>>

\* C19: add on a product whose available flag is false fails with
\* Unavailable and leaves the cart as it was: the handle's dict, the session
\* entry and its modified flag are unchanged.
C19_UnavailableAddChangesNothing ==
  [][\A u \in Shoppers, p \in Products, q \in QtyInputs, o \in BOOLEAN :
       (ApiAdd(u, p, q, o) /\ ~available[p])
       => /\ result'[u] = "Unavailable"
          /\ handle'[u] = handle[u]
          /\ mem'[u] = mem[u]
          /\ modified'[u] = modified[u]]_vars

\* The add was refused on a product the cart already has a line of.
C19_Witness ==
  \E u \in Shoppers, p \in Products :
    /\ pc[u] = "cart"
    /\ result[u] = "Unavailable"
    /\ ~available[p]
    /\ HasLine(handle[u], p)
    /\ \A r \in Products \ {p} : available[r]

\* C13: every OrderItem of an order that create_order commits has the price
\* stored in its cart line, whatever the product's catalog price is by then.
C13_OrderItemsAtSnapshotPrice ==
  [][\A u \in Shoppers :
       (pc[u] = "commit" /\ result'[u] = "Created")
       => \A i \in 1..Len(LastOrder(orders').items) :
            LET item == LastOrder(orders').items[i]
            IN /\ HasLine(session[u], item.product)
               /\ item.price =
                    DecimalOf(session[u][LineIndex(session[u], item.product)].price)]_vars

\* An order was created with an item whose product costs something else in
\* the catalog than the item's price.
C13_Witness ==
  \E u \in Shoppers :
    /\ result[u] = "Created"
    /\ Len(orders) = MaxOrders
    /\ \E i \in 1..Len(LastOrder(orders).items) :
         LET item == LastOrder(orders).items[i]
         IN /\ item.price = 1999
            /\ price[item.product] = 2499

\* C15: a create_order that ends with NoValidItems leaves no Order row of
\* its own and every stock as it was.
C15_NoValidItemsWritesNothing ==
  [][\A u \in Shoppers :
       (pc[u] \in CreatePcs /\ result'[u] = "NoValidItems")
       => /\ orders' = orders
          /\ stock' = stock]_vars

\* C20: in every state reached by add_review, edit_review and delete_review
\* requests in any interleaving, no two Review rows have the same product
\* and the same identity.
C20_OneReviewPerProductAndIdentity ==
  \A r1 \in reviews, r2 \in reviews :
    (r1.product = r2.product /\ r1.user = r2.user) => r1 = r2

\* Two requests of one identity both found no review of the product; one
\* inserted its review and the other's insert was refused.
C20_Witness ==
  \E u \in Sessions, r \in reviews :
    /\ result[u] = "IntegrityError"
    /\ r.user = user[u]

\* C21: add_review by an identity that has a review of the product is
\* turned away as a duplicate (the view's "already reviewed" redirect),
\* stores no review and leaves every stored review, the identity's own
\* included, as it was.
C21_DuplicateReviewRefused ==
  [][\A u \in Sessions, p \in Products :
       (/\ AddReviewBegin(u, p)
        /\ \E r \in reviews : r.product = p /\ r.user = user[u])
       => /\ result'[u] = "AlreadyReviewed"
          /\ pc'[u] = "idle"
          /\ reviews' = reviews]_vars

C21_Witness ==
  \E u \in Sessions, r \in reviews :
    /\ result[u] = "AlreadyReviewed"
    /\ r.user = user[u]

\* C22: an add_review that passed the existence check and whose insert
\* meets a review of the same product and identity, stored meanwhile by
\* another request, ends with the duplicate-review result, not with a fault.
C22_RaceLoserGetsDuplicateResult ==
  [][\A u \in Sessions :
       (/\ pc[u] = "add_review"
        /\ pc'[u] = "idle"
        /\ \E r \in reviews : /\ r.product = reviewing[u].product
                              /\ r.user = reviewing[u].user)
       => result'[u] = "AlreadyReviewed"]_vars

\* C28: every stored Review has a rating in 1..5; an add_review or
\* edit_review whose form carries a rating outside 1..5 ends with the
\* form's rating error and stores and changes nothing.
C28_RatingsWithinRange ==
  [][/\ \A r \in reviews' : r.rating \in 1..5
     /\ \A u \in Sessions, rating \in RatingInputs :
          (/\ AddReviewSave(u, rating) \/ EditReviewSave(u, rating)
           /\ rating \notin 1..5)
          => /\ result'[u] = "InvalidRating"
             /\ reviews' = reviews]_vars

\* A form with a rating out of range was turned away, and the identity's
\* stored review has its rating of 5.
C28_Witness ==
  \E u \in Sessions, r \in reviews :
    /\ result[u] = "InvalidRating"
    /\ r.user = user[u]
    /\ r.rating = 5

\* C23: mark_helpful by an identity that is not the review's owner stores
\* exactly that identity's vote when there is none (the count rises by one)
\* and removes exactly that vote when there is one (the count falls by one),
\* so that two calls in a row leave the votes and the count as they were.
C23_ToggleTwiceRestores ==
  [][\A u \in Sessions :
       LET id   == voting[u].review
           mine == VotesOf(helpful, id, user[u])
       IN /\ \A rid \in 1..MaxReviews :
               (/\ MarkHelpfulBegin(u, rid)
                /\ \E r \in reviews : r.id = rid /\ r.user # user[u])
               => /\ helpful' = helpful
                  /\ voting'[u].review = rid
                  /\ voting'[u].user = user[u]
                  /\ pc'[u] = IF VotesOf(helpful, rid, user[u]) = {}
                                THEN "mark" ELSE "unmark"
          /\ (pc[u] = "mark" /\ result'[u] = "Marked")
             => /\ mine = {}
                /\ Cardinality(VotesOf(helpful', id, user[u])) = 1
                /\ helpful' \ VotesOf(helpful', id, user[u]) = helpful
                /\ HelpfulCount(helpful', id) = HelpfulCount(helpful, id) + 1
          /\ (pc[u] \in {"mark", "unmark"} /\ result'[u] = "Unmarked")
             => /\ helpful' = helpful \ mine
                /\ HelpfulCount(helpful', id)
                     = HelpfulCount(helpful, id) - Cardinality(mine)
                /\ Cardinality(mine) <= 1]_vars

\* The identity's second call has taken back the vote of its first: the
\* review of another identity has no vote.
C23_Witness ==
  \E u \in Sessions, r \in reviews :
    /\ result[u] = "Unmarked"
    /\ r.user # user[u]
    /\ HelpfulCount(helpful, r.id) = 0
    /\ Cardinality(reviews) = 1

\* C24: mark_helpful by the owner of the review is refused as a self-vote
\* and stores no vote, and no stored vote on a review is its owner's.
C24_NoSelfVote ==
  [][/\ \A u \in Sessions, id \in 1..MaxReviews :
          (/\ MarkHelpfulBegin(u, id)
           /\ \E r \in reviews : r.id = id /\ r.user = user[u])
          => /\ result'[u] = "SelfVote"
             /\ pc'[u] = "idle"
             /\ helpful' = helpful
     /\ \A v \in helpful', r \in reviews' :
          r.id = v.review => r.user # v.user]_vars

\* The owner was refused while the review has a vote of the other identity.
C24_Witness ==
  \E u \in Sessions, r \in reviews :
    /\ result[u] = "SelfVote"
    /\ r.user = user[u]
    /\ HelpfulCount(helpful, r.id) = 1

\* C25: cancel_order on an order of another identity fails (the order is
\* not found for this identity) and leaves every order's status and every
\* product's stock as they were, whatever the order's status.
C25_ForeignCancelRefused ==
  [][\A u \in Sessions, o \in DOMAIN orders :
       (OrderCancelBegin(u, o) /\ orders[o].user # user[u])
       => /\ result'[u] = "NotFound"
          /\ pc'[u] = "idle"
          /\ ~tx'[u].open
          /\ orders' = orders
          /\ stock' = stock]_vars

\* A cancel of the session was refused as not found while another identity
\* has an order that could be cancelled, and no order of the session's own
\* identity exists.
C25_Witness ==
  \E u \in Sessions :
    /\ result[u] = "NotFound"
    /\ \E o \in DOMAIN orders : Cancellable(orders[o].status)
    /\ \A o \in DOMAIN orders : orders[o].user # user[u]

\* C26: create_order on a cart with no lines is turned away as an empty
\* cart before a transaction opens: no Order is stored and no stock changes.
C26_EmptyCartRejected ==
  [][\A u \in Shoppers :
       (OrderCreateBegin(u) /\ session[u] = <<>>)
       => /\ result'[u] = "EmptyCart"
          /\ pc'[u] = "idle"
          /\ ~tx'[u].open
          /\ orders' = orders
          /\ stock' = stock]_vars

C26_Witness ==
  \E u \in Shoppers :
    /\ result[u] = "EmptyCart"
    /\ session[u] = <<>>
    /\ Len(orders) = MaxOrders - 1

\* C27: in every step of every create_order and cancel_order request each
\* stored order keeps its OrderItems (product, quantity and price of each)
\* and its owner; a cancel_order commit changes of its order the status only.
C27_OrderItemsImmutable ==
  [][/\ \A o \in DOMAIN orders :
          /\ o \in DOMAIN orders'
          /\ orders'[o].items = orders[o].items
          /\ orders'[o].user = orders[o].user
     /\ \A u \in Sessions :
          (pc[u] = "restore" /\ result'[u] = "Cancelled")
          => /\ Len(orders') = Len(orders)
             /\ \A o \in DOMAIN orders : o # target[u] => orders'[o] = orders[o]]_vars

\* An order created in this run, with its item, has been cancelled.
C27_Witness ==
  \E u \in Sessions, o \in DOMAIN orders :
    /\ result[u] = "Cancelled"
    /\ o > 1
    /\ orders[o].status = "cancelled"
    /\ Len(orders[o].items) >= 1

\* A cart line that _is_valid_cart_item turns away.
Malformed(line) == line.quantity <= 0 \/ DecimalOf(line.price) <= 0

\* The products of which the cart has a well-formed line that asks for more
\* than the product's stock.
Offending(cart) ==
  {p \in Products :
     \E i \in 1..Len(cart) : /\ cart[i].product_id = p
                             /\ ~Malformed(cart[i])
                             /\ cart[i].quantity > stock[p]}

\* C29: a create_order whose cart has lines above their products' stock
\* ends with InsufficientStock and reports exactly one entry for every such
\* product, with the quantity asked for and the stock available, however
\* many such products there are.
C29_OneEntryPerOffendingProduct ==
  [][\A u \in Shoppers :
       (OrderCreateValidate(u) /\ Offending(session[u]) # {})
       => \/ result'[u] = "Failure"
          \/ /\ result'[u] = "InsufficientStock"
             /\ Len(yielded'[u]) = Cardinality(Offending(session[u]))
             /\ \A p \in Offending(session[u]) :
                  \E i \in 1..Len(yielded'[u]) :
                    yielded'[u][i] = [product   |-> NameOf(p),
                                      requested |-> Qty(session[u], p),
                                      available |-> stock[p]]]_vars

\* A create_order reported two products, each asked for above its stock.
C29_Witness ==
  \E u \in Shoppers :
    /\ result[u] = "InsufficientStock"
    /\ Len(yielded[u]) = 2
    /\ yielded[u][1].product # yielded[u][2].product
    /\ \A i \in 1..2 : yielded[u][i].requested > yielded[u][i].available

\* The OrderItems create_order is to store for a cart: one for each
\* well-formed line, in the cart's order.
WellFormedItems(cart) ==
  LET F[n \in 0..Len(cart)] ==
        IF n = 0 THEN <<>>
        ELSE IF Malformed(cart[n]) THEN F[n - 1]
        ELSE Append(F[n - 1], [product  |-> cart[n].product_id,
                               price    |-> DecimalOf(cart[n].price),
                               quantity |-> cart[n].quantity])
  IN F[Len(cart)]

Mixed(cart) ==
  /\ \E i \in 1..Len(cart) : Malformed(cart[i])
  /\ \E i \in 1..Len(cart) : ~Malformed(cart[i])

\* C30: create_order on a cart of malformed lines and of well-formed lines
\* within stock passes validation with the well-formed lines only, and its
\* commit stores an order of exactly those lines and takes the quantity of
\* each from its product's stock; the stock of every other product, those
\* of the malformed lines included, stays as it was.
C30_MalformedLinesSkipped ==
  [][\A u \in Shoppers :
       /\ (OrderCreateValidate(u) /\ Mixed(session[u]) /\ Offending(session[u]) = {})
          => \/ result'[u] = "Failure"
             \/ /\ pc'[u] = "decrement"
                /\ tx'[u].items = WellFormedItems(session[u])
       /\ (pc[u] = "commit" /\ result'[u] = "Created" /\ Mixed(session[u]))
          => /\ orders' = Append(orders, [user   |-> user[u],
                                          status |-> InitialStatus,
                                          items  |-> WellFormedItems(session[u])])
             /\ \A p \in Products :
                  stock'[p] =
                    IF \E i \in 1..Len(session[u]) :
                         session[u][i].product_id = p /\ ~Malformed(session[u][i])
                      THEN stock[p] - Qty(session[u], p)
                      ELSE stock[p]]_vars

\* A request about to commit holds a cart of two lines, one of them at a
\* price of 0, one order item and one stock write.
C30_Witness ==
  \E u \in Shoppers :
    /\ pc[u] = "commit"
    /\ Len(session[u]) = 2
    /\ \E i \in 1..2 : DecimalOf(session[u][i].price) = 0
    /\ Len(tx[u].items) = 1
    /\ Cardinality(DOMAIN tx[u].stockW) = 1

\* The quantity of a product in the OrderItems of the orders that are not
\* cancelled.
Outstanding(os, p) ==
  LET F[n \in 0..Len(os)] ==
        IF n = 0 THEN 0
        ELSE F[n - 1] + (IF os[n].status = "cancelled" THEN 0
                         ELSE SumQty(os[n].items, p))
  IN F[Len(os)]

\* What the catalog held of a product before any order was placed: the
\* initial stock and what the earlier order took.
InitialSupply(p) == InitStock + SumQty(EarlierOrder("completed").items, p)

\* C31: in every committed state reached by create_order and cancel_order
\* requests in any interleaving, with no other change of the catalog, the
\* stock of every product plus the quantity of it in the orders that are
\* not cancelled is what the catalog held of it initially.
C31_StockConserved ==
  \A p \in Products : stock[p] + Outstanding(orders, p) = InitialSupply(p)

\* An order placed in this run: it was created pending, and no request gives
\* an order another status than cancelled.
PlacedPending(o) == o > Len(<<EarlierOrder("completed")>>)

\* C32: of two concurrent cancel_order requests of the owner on one pending
\* order only one restores the stock: a cancel that commits when the order
\* is already cancelled leaves every product's stock as it is.
C32_ConcurrentCancelRestoresOnce ==
  [][\A u \in Sessions :
       (/\ OrderCancelCommit(u)
        /\ PlacedPending(target[u])
        /\ orders[target[u]].status = "cancelled")
       => stock' = stock]_vars

\* The line of a product in a cart, or none.
LineOf(cart, p) == IF HasLine(cart, p) THEN <<cart[LineIndex(cart, p)]>> ELSE <<>>

\* C33: a cart_add or cart_update request that is turned away, by an AJAX
\* caller or not, leaves the line of every other product in the visitor's
\* cart as it was.
C33_RejectionKeepsOtherLines ==
  [][\A u \in Shoppers, p \in Products, q \in QtyInputs, a \in BOOLEAN :
       (/\ CartAddView(u, p, q, a) \/ CartUpdateView(u, p, q, a)
        /\ result'[u] \notin {"ok", "Updated"})
       => \A other \in Products \ {p} :
            LineOf(session'[u], other) = LineOf(session[u], other)]_vars

\* Every line of the cart before a step that is still a line after it has
\* the price it had.
PricesKept(before, after) ==
  \A p \in Products :
    (HasLine(before, p) /\ HasLine(after, p))
    => after[LineIndex(after, p)].price = before[LineIndex(before, p)].price

\* The sum over the products of the line's price text, read as cents, times
\* the line's quantity.
SnapshotSum(cart) ==
  LET cents(p) == IF HasLine(cart, p) /\ Qty(cart, p) > 0
                    THEN (cart[LineIndex(cart, p)].price[1] * 100
                          + cart[LineIndex(cart, p)].price[2]) * Qty(cart, p)
                    ELSE 0
  IN cents("pA") + cents("pB")

\* C34: the price of a cart line stays what it was when the line was
\* created: no edit of the catalog price, no later add on the product
\* (incrementing or overriding), no iteration and no total_price() changes
\* it, in the request's dict or in the session entry, and the session is
\* only ever written with that entry; total_price() is computed from the
\* lines' prices alone, whatever the catalog price is by then.
C34_SnapshotPriceFixed ==
  [][\A u \in Shoppers :
       /\ PricesKept(handle[u], handle'[u])
       /\ PricesKept(mem[u], mem'[u])
       /\ session'[u] \in {session[u], mem[u]}
       /\ ApiTotals(u) => yielded'[u][1].total_price = SnapshotSum(handle[u])
       /\ (\E p \in Repriced, c \in Prices : SetPrice(p, c))
          => SnapshotSum(handle'[u]) = SnapshotSum(handle[u])]_vars

\* total_price() gave twice 19.99 for a line of pA raised by a second add,
\* while the catalog price of pA is another.
C34_Witness ==
  \E u \in Shoppers :
    /\ pc[u] = "cart"
    /\ price["pA"] # 1999
    /\ Len(handle[u]) = 1
    /\ handle[u][1] = [product_id |-> "pA", price |-> <<19, 99>>, quantity |-> 2]
    /\ yielded[u] = <<[total_price |-> 3998, total_items |-> 2]>>

\* C35: a toggle that ends with a response, no other request having written
\* a vote since it began, reports as helpful-count the number of votes
\* stored for the review and as vote state whether a vote of the caller for
\* the review is stored; and no two stored votes are of one voter on one
\* review.
C35_ToggleResponseMatchesVotes ==
  [][/\ \A u \in Sessions :
          (/\ pc[u] \in {"mark", "unmark"}
           /\ result'[u] \in {"Marked", "Unmarked"}
           /\ undisturbed[u])
          => LET id   == voting[u].review
                 resp == yielded'[u][1]
             IN /\ resp.helpful_count = Cardinality({v \in helpful' : v.review = id})
                /\ resp.is_helpful =
                     (\E v \in helpful' : v.review = id /\ v.user = user[u])
     /\ \A v1 \in helpful', v2 \in helpful' :
          (v1.review = v2.review /\ v1.user = v2.user) => v1 = v2]_vars

\* The visitor's second vote on the review is stored, and the response of
\* the toggle that stored it says so.
C35_Witness ==
  \E u \in Sessions :
    /\ result[u] = "Marked"
    /\ yielded[u] = <<[is_helpful |-> TRUE, helpful_count |-> 1]>>
    /\ helpful = {[id |-> 2, review |-> 1, user |-> user[u]]}

====
